---- MODULE Spec2Model ----
(***************************************************************************)
(* Daily ledger: banks, entries and the balance recalculation engine.      *)
(* The store is the two MongoDB collections banks_col and entries_col;     *)
(* every storage operation of a route handler, and every reading of the    *)
(* clock that decides what it does, is one action, and inflight holds, for *)
(* each request in service, the operation it stands before and what it has *)
(* read so far.                                                            *)
(***************************************************************************)
EXTENDS Integers, Sequences, FiniteSets, TLC

VARIABLES banks, entries, nextBankId, nextEntryId, now, lastOp, inflight

vars == <<banks, entries, nextBankId, nextEntryId, now, lastOp, inflight>>

(***************************************************************************)
(* Bounds of the model.                                                    *)
(***************************************************************************)
MaxBanks == 2
MaxEntries == 3
LedgerEntries == 2
ScenarioEntries == 3
LegacyEntries == 2
MaxDate == 2
SecPerMin == 2
MinPerDay == 1
DaysPerMonth == 1
MonthsPerYear == 2
MaxProcs == 2

TodPerDay == MinPerDay * SecPerMin

(***************************************************************************)
(* Input domains of the requests.                                          *)
(***************************************************************************)
Shops == {"s1", "s2"}
BankNames == {"a", "A", "b"}
NameInputs == BankNames \cup {""}
Dates == 1..MaxDate
BankIdInputs == 1..MaxBanks
EntryIdInputs == 1..MaxEntries
OpeningInputs == {0, 200, 1000, -1000}
CreditInputs == {0, 100, 500, -100}
DebitInputs == {0, 200}
PasswordInputs == {"", "pw-s1", "pw-s2"}
PeriodInputs == -1..((MaxDate - 1) \div DaysPerMonth)

\* Python's None as the result of a failed amount parse.
NoneVal == -1

\* datetime.min, below every parsed timestamp (dates start at 1).
DatetimeMin == 0

(***************************************************************************)
(* Time strings: <<m, s>> is "HH:MM:SS", <<m>> is "HH:MM", <<>> is a       *)
(* string that matches neither format.                                     *)
(***************************************************************************)
TimeStrings ==
    {<<m, s>> : m \in 0..(MinPerDay - 1), s \in 0..(SecPerMin - 1)}
        \cup {<<m>> : m \in 0..(MinPerDay - 1)} \cup {<<>>}

\* utils.parse_entry_datetime: strict format, then the format without
\* seconds, then datetime.min.
parse_entry_datetime(e) ==
    IF Len(e.time) = 2
    THEN e.date * TodPerDay + e.time[1] * SecPerMin + e.time[2]
    ELSE IF Len(e.time) = 1
         THEN e.date * TodPerDay + e.time[1] * SecPerMin
         ELSE DatetimeMin

\* app.py's inner get_sort_key: the same two formats and the same fallback.
get_sort_key(e) ==
    IF Len(e.time) = 2
    THEN e.date * TodPerDay + e.time[1] * SecPerMin + e.time[2]
    ELSE IF Len(e.time) = 1
         THEN e.date * TodPerDay + e.time[1] * SecPerMin
         ELSE DatetimeMin

\* datetime.strftime("%H:%M:%S")
strftime(dt) ==
    <<(dt % TodPerDay) \div SecPerMin, (dt % TodPerDay) % SecPerMin>>

\* datetime.strptime(f"{entry_date} {now:%H:%M:%S}") in add_entry
entry_datetime_of(entry_date, tod) == entry_date * TodPerDay + tod

max0(x) == IF x < 0 THEN 0 ELSE x

\* Stored amounts that are no numbers: NonNumeric is a value float() raises
\* on (a string such as "abc", or null), MissingField is the absent field.
NonNumeric == -999
MissingField == -998

\* float(e.get(field, 0)) inside try ... except: credited = 0.0
float_or_zero(v) == IF v = NonNumeric \/ v = MissingField THEN 0 ELSE v

parse_non_negative_float(value) == IF value < 0 THEN NoneVal ELSE value

\* Bank ids are positive; MalformedId is a string that is no ObjectId.
\* ObjectId(bank_id) raises on it and to_object_id returns None.
MalformedId == 0

to_object_id(value) == IF value = MalformedId THEN NoneVal ELSE value

(***************************************************************************)
(* Storage queries.  A find() without sort returns the matching documents  *)
(* in an order the storage chooses; find_one with a sort returns one of    *)
(* the documents that are extreme under the sort key.                      *)
(***************************************************************************)
RECURSIVE Orders(_)
Orders(S) ==
    IF S = {} THEN {<<>>}
    ELSE UNION {{<<x>> \o t : t \in Orders(S \ {x})} : x \in S}

\* The orders in which find() may return the documents S.  The callers sort
\* the result with a stable sort, which keeps of the storage's order only
\* the relative order of documents with equal keys: one storage order for
\* each such relative order is enough, and it is taken latest first, so
\* that the sort has all the reordering to do.
storage_orders(S) ==
    {r \in Orders(S) :
        \A i, j \in 1..Len(r) : i < j => parse_entry_datetime(r[i]) >= parse_entry_datetime(r[j])}

\* the bank lookup by _id alone
find_bank_any_shop(bs, oid, shop_identifier) ==
    {b \in bs : b.id = oid}

find_bank(bs, oid, shop_identifier) ==
    {b \in bs : b.id = oid /\ b.shop_identifier = shop_identifier}

find_one_latest(S) == {e \in S : \A f \in S : f.entry_datetime <= e.entry_datetime}

find_one_earliest(S) == {e \in S : \A f \in S : f.entry_datetime >= e.entry_datetime}

\* Python's sorted(raw, key=...) on <<key, document>> pairs.  The sort is
\* stable: a pair goes after the pairs with a smaller key and after the
\* pairs with an equal key that precede it in raw.
rank(keyed, i) ==
    Cardinality({j \in 1..Len(keyed) :
                    \/ keyed[j][1] < keyed[i][1]
                    \/ (keyed[j][1] = keyed[i][1] /\ j < i)}) + 1

sorted(keyed) ==
    [p \in 1..Len(keyed) |-> keyed[CHOOSE i \in 1..Len(keyed) : rank(keyed, i) = p]]

\* the entries replayed in the order the storage returned them
unsorted(raw) == raw

\* sorted(raw, key=parse_entry_datetime) and sorted(raw, key=get_sort_key)
sorted_by_parse_entry_datetime(raw) ==
    LET srt == sorted([i \in 1..Len(raw) |-> <<parse_entry_datetime(raw[i]), raw[i]>>])
    IN [i \in 1..Len(raw) |-> srt[i][2]] \o <<>>

sorted_by_get_sort_key(raw) ==
    LET srt == sorted([i \in 1..Len(raw) |-> <<get_sort_key(raw[i]), raw[i]>>])
    IN [i \in 1..Len(raw) |-> srt[i][2]] \o <<>>

(***************************************************************************)
(* app.py: recalculate_bank_balances(bank_id).  Replays every entry of the *)
(* bank from the bank's opening balance; no floor at zero.                 *)
(***************************************************************************)
\* the replay that stops after the first entry it is given
app_replay_first_only(es, i, balance) ==
    IF i > Len(es) THEN {}
    ELSE LET e == es[i]
             correct_dt == get_sort_key(e)
         IN {[e EXCEPT !.opening_balance = balance,
                       !.remaining_balance = balance + float_or_zero(e.credited)
                                                      - float_or_zero(e.debited),
                       !.entry_datetime = correct_dt,
                       !.time = strftime(correct_dt)]}
                \cup {es[j] : j \in (i + 1)..Len(es)}

\* the loop over entries, from entries[i] on: the documents as updated
RECURSIVE app_replay(_, _, _)
app_replay(es, i, balance) ==
    IF i > Len(es) THEN {}
    ELSE LET e == es[i]
             credited == float_or_zero(e.credited)
             debited == float_or_zero(e.debited)
             opening_balance == balance
             new_balance == balance + credited - debited
             correct_dt == get_sort_key(e)
             standard_time == strftime(correct_dt)
         IN {[e EXCEPT !.opening_balance = opening_balance,
                       !.remaining_balance = new_balance,
                       !.credited = credited,
                       !.debited = debited,
                       !.entry_datetime = correct_dt,
                       !.time = standard_time]}
                \cup app_replay(es, i + 1, new_balance)

app_raw_entries(es, bank_id, shop_identifier) ==
    {e \in es : e.bank_id = bank_id /\ e.shop_identifier = shop_identifier}


(***************************************************************************)
(* banks.py: recalculate_bank_balances_from_date(bank_id, start_date).     *)
(***************************************************************************)
\* the replay that drops each entry's effect instead of carrying it forward
RECURSIVE from_date_replay_no_carry(_, _, _)
from_date_replay_no_carry(es, i, balance) ==
    IF i > Len(es) THEN {}
    ELSE LET e == es[i]
             opening_balance == max0(balance)
             new_balance == max0(opening_balance + max0(float_or_zero(e.credited))
                                                 - max0(float_or_zero(e.debited)))
         IN {[e EXCEPT !.opening_balance = opening_balance,
                       !.remaining_balance = new_balance,
                       !.entry_datetime = parse_entry_datetime(e),
                       !.time = strftime(parse_entry_datetime(e))]}
                \cup from_date_replay_no_carry(es, i + 1, opening_balance)

\* the loop over entries, from entries[i] on: the documents as updated
RECURSIVE from_date_replay(_, _, _)
from_date_replay(es, i, balance) ==
    IF i > Len(es) THEN {}
    ELSE LET e == es[i]
             credited == max0(float_or_zero(e.credited))
             debited == max0(float_or_zero(e.debited))
             opening_balance == max0(balance)
             new_balance == max0(opening_balance + credited - debited)
             correct_dt == parse_entry_datetime(e)
         IN {[e EXCEPT !.opening_balance = opening_balance,
                       !.remaining_balance = new_balance,
                       !.credited = credited,
                       !.debited = debited,
                       !.entry_datetime = correct_dt,
                       !.time = strftime(correct_dt)]}
                \cup from_date_replay(es, i + 1, new_balance)

\* the documents the prev_entry query matches
prev_entry_matches(es, bank_id, shop_identifier, start_date) ==
    {e \in es : /\ e.bank_id = bank_id
                /\ e.shop_identifier = shop_identifier
                /\ e.date < start_date}

\* the raw_entries query without its date condition
from_date_raw_entries_all_dates(es, bank_id, shop_identifier, start_date) ==
    {e \in es : /\ e.bank_id = bank_id
                /\ e.shop_identifier = shop_identifier}

\* the documents the raw_entries query matches
from_date_raw_entries(es, bank_id, shop_identifier, start_date) ==
    {e \in es : /\ e.bank_id = bank_id
                /\ e.shop_identifier = shop_identifier
                /\ e.date >= start_date}

\* The candidates for prev_entry: one of the latest matches by the stored
\* entry_datetime, or no document.
NoEntry == [id |-> 0]

prev_entry_choices(es, bank_id, shop_identifier, start_date) ==
    LET m == prev_entry_matches(es, bank_id, shop_identifier, start_date)
    IN IF m = {} THEN {NoEntry} ELSE find_one_latest(m)

(***************************************************************************)
(* The record of the last request: which handler ran, whether it went      *)
(* through (and why not), on what, and the value it computed (the resolved *)
(* opening balance of add_entry, the balance returned by bank_balance).    *)
(***************************************************************************)
Op(op, ok, why, shop_identifier, bank_id, date, entry_id, val, flag) ==
    [op |-> op, ok |-> ok, why |-> why, shop_identifier |-> shop_identifier,
     bank_id |-> bank_id, date |-> date, entry_id |-> entry_id, val |-> val, flag |-> flag]


\* "name": {"$regex": "^<escaped name>$", "$options": "i"}
lower(name) == IF name = "A" THEN "a" ELSE name

name_matches_ignoring_case(stored, bank_name) == lower(stored) = lower(bank_name)

\* the shop's account password, as check_password_hash_fn sees it
password_of(shop_identifier) == IF shop_identifier = "s1" THEN "pw-s1" ELSE "pw-s2"

check_password_hash_fn(shop_identifier, password) == password = password_of(shop_identifier)


(***************************************************************************)
(* The opening balance for a new entry or a balance query: the remaining   *)
(* balance of the latest entry (by stored entry_datetime) of the bank      *)
(* dated on or before the date, else the bank's opening balance.           *)
(***************************************************************************)
last_entry_matches(es, bank_id, shop_identifier, entry_date) ==
    {e \in es : /\ e.bank_id = bank_id
                /\ e.date <= entry_date
                /\ e.shop_identifier = shop_identifier}

last_entry_choices(es, bank_id, shop_identifier, entry_date) ==
    LET m == last_entry_matches(es, bank_id, shop_identifier, entry_date)
    IN IF m = {} THEN {NoEntry} ELSE find_one_latest(m)

\* the resolver that forgets the bank's configured opening balance
resolve_opening_balance_zero(bank, last_entry) ==
    IF last_entry # NoEntry THEN last_entry.remaining_balance ELSE 0

resolve_opening_balance(bank, last_entry) ==
    IF last_entry # NoEntry THEN last_entry.remaining_balance ELSE bank.opening_balance

\* Is the date before the date of the bank's latest existing entry?
is_backdated(es, bank_id, shop_identifier, entry_date) ==
    \E e \in app_raw_entries(es, bank_id, shop_identifier) : entry_date < e.date

(***************************************************************************)
(* app.py: add_entry (POST)                                                *)
\* entries_col.find_one({"_id": oid, "shop_identifier": ...})
find_entry(es, entry_id, shop_identifier) ==
    {e \in es : e.id = entry_id /\ e.shop_identifier = shop_identifier}

(***************************************************************************)
(* reports.py: the date ranges of a month and of a year.  Months and years *)
(* are numbered from 0; a negative period value is one that fails the      *)
(* format check.                                                           *)
(***************************************************************************)
DaysPerYear == DaysPerMonth * MonthsPerYear

get_month_date_range(report_month) ==
    IF report_month < 0 THEN <<0, 0>>
    ELSE <<report_month * DaysPerMonth + 1, (report_month + 1) * DaysPerMonth>>

get_year_date_range(report_year) ==
    IF report_year < 0 THEN <<0, 0>>
    ELSE <<report_year * DaysPerYear + 1, (report_year + 1) * DaysPerYear>>

(***************************************************************************)
(* The wall clock (date.today(), datetime.now()) moves forward.            *)
(***************************************************************************)
advance_clock ==
    /\ \E d \in Dates, t \in 0..(TodPerDay - 1) :
         /\ d > now.date \/ (d = now.date /\ t > now.tod)
         /\ now' = [date |-> d, tod |-> t]
    /\ lastOp' = Op("clock", TRUE, "", "", 0, 0, 0, 0, FALSE)
    /\ UNCHANGED <<banks, entries, nextBankId, nextEntryId, inflight>>

(***************************************************************************)

(***************************************************************************)
(* Requests served at the same time.  No handler holds a lock or a         *)
(* transaction: every storage operation of a handler is a step of its own, *)
(* and the steps of the requests in service interleave.  A worker is idle  *)
(* or stands before a storage operation of the request it serves, holding  *)
(* what the handler has read so far.                                       *)
(***************************************************************************)
Procs == 1..MaxProcs

NoResponse == Op("", TRUE, "", "", 0, 0, 0, 0, FALSE)

\* pc is the storage operation the worker is about to run; request holds
\* the handler's local variables; locals, updates and date are the local
\* variables, the bulk_ops and the start date of the recalculation it has
\* called; queue holds the banks a period deletion has still to
\* recalculate, in the order it takes them; response is the record of the request once it has returned.
Idle ==
    [pc |-> "idle", shop_identifier |-> "", bank_id |-> 0, date |-> 0, request |-> <<>>,
     locals |-> <<>>, updates |-> {}, queue |-> <<>>, response |-> NoResponse]

\* the workers standing before one of the operations pcs
pending(pcs) == Cardinality({p \in Procs : inflight[p].pc \in pcs})

\* worker p has run the operation step and stands before the next one
Goes(p, call, step) ==
    /\ inflight' = [inflight EXCEPT ![p] = call]
    /\ lastOp' = Op(step, TRUE, "", call.shop_identifier, call.bank_id, call.date, 0, 0, FALSE)

\* the handler returns
Returns(p, response) ==
    /\ inflight' = [inflight EXCEPT ![p] = Idle]
    /\ lastOp' = response

Refusal(op, why) == Op(op, FALSE, why, "", 0, 0, 0, 0, FALSE)

(***************************************************************************)
(* app.py: add_bank, step by step                                          *)
(***************************************************************************)
app_add_bank_find_one(p, shop_identifier, bank_name, opening_balance_raw) ==
    LET opening_balance == parse_non_negative_float(opening_balance_raw)
        existing_bank == {b \in banks : /\ b.shop_identifier = shop_identifier
                                        /\ name_matches_ignoring_case(b.name, bank_name)}
    IN /\ inflight[p].pc = "idle"
       /\ IF bank_name = ""
          THEN Returns(p, Refusal("app.add_bank", "invalid name"))
          ELSE IF existing_bank # {}
          THEN Returns(p, Refusal("app.add_bank", "name exists"))
          ELSE IF opening_balance = NoneVal
          THEN Returns(p, Refusal("app.add_bank", "invalid opening balance"))
          ELSE Goes(p, [Idle EXCEPT !.pc = "app.add_bank.insert_one",
                                    !.shop_identifier = shop_identifier,
                                    !.request = <<bank_name, opening_balance>>],
                    "app.add_bank.find_one")
       /\ UNCHANGED <<banks, entries, nextBankId, nextEntryId, now>>

app_add_bank_insert_one(p) ==
    LET call == inflight[p]
    IN /\ call.pc = "app.add_bank.insert_one"
       /\ banks' = banks \cup {[id |-> nextBankId, name |-> call.request[1],
                                opening_balance |-> call.request[2],
                                shop_identifier |-> call.shop_identifier]}
       /\ nextBankId' = nextBankId + 1
       /\ Returns(p, Op("app.add_bank", TRUE, "", call.shop_identifier, nextBankId, 0, 0, 0, FALSE))
       /\ UNCHANGED <<entries, nextEntryId, now>>

(***************************************************************************)
(* app.py: edit_bank, step by step                                         *)
(***************************************************************************)
edit_bank_find_one(p, shop_identifier, bank_id, bank_name, opening_balance_raw) ==
    LET opening_balance == parse_non_negative_float(opening_balance_raw)
    IN /\ inflight[p].pc = "idle"
       /\ IF find_bank(banks, bank_id, shop_identifier) = {}
          THEN Returns(p, Refusal("app.edit_bank", "bank not found"))
          ELSE IF bank_name = ""
          THEN Returns(p, Refusal("app.edit_bank", "invalid name"))
          ELSE Goes(p, [Idle EXCEPT !.pc = "app.edit_bank.find_existing",
                                    !.shop_identifier = shop_identifier,
                                    !.bank_id = bank_id,
                                    !.request = <<bank_name, opening_balance>>],
                    "app.edit_bank.find_one")
       /\ UNCHANGED <<banks, entries, nextBankId, nextEntryId, now>>

edit_bank_find_existing(p) ==
    LET call == inflight[p]
        existing_bank == {b \in banks : /\ b.shop_identifier = call.shop_identifier
                                        /\ name_matches_ignoring_case(b.name, call.request[1])
                                        /\ b.id # call.bank_id}
    IN /\ call.pc = "app.edit_bank.find_existing"
       /\ IF existing_bank # {}
          THEN Returns(p, Refusal("app.edit_bank", "name exists"))
          ELSE IF call.request[2] = NoneVal
          THEN Returns(p, Refusal("app.edit_bank", "invalid opening balance"))
          ELSE Goes(p, [call EXCEPT !.pc = "app.edit_bank.update_one"], "app.edit_bank.find_existing")
       /\ UNCHANGED <<banks, entries, nextBankId, nextEntryId, now>>

\* update_one selects by _id alone; a bank deleted meanwhile matches nothing
edit_bank_update_one(p) ==
    LET call == inflight[p]
    IN /\ call.pc = "app.edit_bank.update_one"
       /\ banks' = {IF b.id = call.bank_id
                    THEN [b EXCEPT !.name = call.request[1], !.opening_balance = call.request[2]]
                    ELSE b : b \in banks}
       /\ Returns(p, Op("app.edit_bank", TRUE, "", call.shop_identifier, call.bank_id, 0, 0,
                        call.request[2], FALSE))
       /\ UNCHANGED <<entries, nextBankId, nextEntryId, now>>

(***************************************************************************)
(* app.py: delete_bank, step by step                                       *)
(***************************************************************************)
app_delete_bank_find_one(p, shop_identifier, bank_id) ==
    /\ inflight[p].pc = "idle"
    /\ IF find_bank(banks, bank_id, shop_identifier) = {}
       THEN Returns(p, Refusal("app.delete_bank", "bank not found"))
       ELSE Goes(p, [Idle EXCEPT !.pc = "app.delete_bank.delete_many",
                                 !.shop_identifier = shop_identifier,
                                 !.bank_id = bank_id],
                 "app.delete_bank.find_one")
    /\ UNCHANGED <<banks, entries, nextBankId, nextEntryId, now>>

app_delete_bank_delete_many(p) ==
    LET call == inflight[p]
    IN /\ call.pc = "app.delete_bank.delete_many"
       /\ entries' = {e \in entries : ~(/\ e.bank_id = call.bank_id
                                        /\ e.shop_identifier = call.shop_identifier)}
       /\ Goes(p, [call EXCEPT !.pc = "app.delete_bank.delete_one"], "app.delete_bank.delete_many")
       /\ UNCHANGED <<banks, nextBankId, nextEntryId, now>>

app_delete_bank_delete_one(p) ==
    LET call == inflight[p]
    IN /\ call.pc = "app.delete_bank.delete_one"
       /\ banks' = {b \in banks : b.id # call.bank_id}
       /\ Returns(p, Op("app.delete_bank", TRUE, "", call.shop_identifier, call.bank_id,
                        0, 0, 0, FALSE))
       /\ UNCHANGED <<entries, nextBankId, nextEntryId, now>>

(***************************************************************************)
(* app.py: recalculate_bank_balances, step by step: the bank lookup, the   *)
(* unlocked read of the entries with bulk_ops computed from it, and the    *)
(* batched write.  The call's return is the return of the handler.         *)
(***************************************************************************)
\* entries_col.bulk_write(bulk_ops): each UpdateOne sets its six fields on
\* the document of its _id as it is stored now, if it still is.
bulk_write(es, updates) ==
    {IF \E u \in updates : u.id = e.id
     THEN LET u == CHOOSE v \in updates : v.id = e.id
          IN [e EXCEPT !.opening_balance = u.opening_balance,
                       !.remaining_balance = u.remaining_balance,
                       !.credited = u.credited,
                       !.debited = u.debited,
                       !.entry_datetime = u.entry_datetime,
                       !.time = u.time]
     ELSE e : e \in es}

\* the record of a direct call of a recalculation tells whether the bank
\* was found
bank_missing(response) ==
    [response EXCEPT !.ok = response.ok /\ response.op \notin {"recalculate", "recalculate_all"}]

recalculate_find_bank(p) ==
    LET call == inflight[p]
        found == find_bank(banks, call.bank_id, call.shop_identifier)
    IN /\ call.pc = "recalculate.find_bank"
       /\ IF to_object_id(call.bank_id) = NoneVal \/ found = {}
          THEN Returns(p, bank_missing(call.response))
          ELSE Goes(p, [call EXCEPT !.pc = "recalculate.find",
                                    !.locals = <<CHOOSE b \in found : TRUE>>],
                    "recalculate.find_bank")
       /\ UNCHANGED <<banks, entries, nextBankId, nextEntryId, now>>

recalculate_fetch(p) ==
    LET call == inflight[p]
    IN /\ call.pc = "recalculate.find"
       /\ \E raw \in storage_orders(app_raw_entries(entries, call.bank_id, call.shop_identifier)) :
            LET bulk_ops == app_replay(sorted_by_get_sort_key(raw), 1,
                                       call.locals[1].opening_balance)
            IN IF bulk_ops = {}
               THEN Returns(p, call.response)
               ELSE Goes(p, [call EXCEPT !.pc = "recalculate.bulk_write",
                                         !.updates = bulk_ops,
                                         !.locals = <<>>],
                         "recalculate.find")
       /\ UNCHANGED <<banks, entries, nextBankId, nextEntryId, now>>

recalculate_write(p) ==
    LET call == inflight[p]
    IN /\ call.pc = "recalculate.bulk_write"
       /\ entries' = bulk_write(entries, call.updates)
       /\ Returns(p, call.response)
       /\ UNCHANGED <<banks, nextBankId, nextEntryId, now>>

\* recalculate_bank_balances called on its own
recalculate_all_call(p, shop_identifier, bank_id) ==
    /\ inflight[p].pc = "idle"
    /\ Goes(p, [Idle EXCEPT !.pc = "recalculate.find_bank",
                            !.shop_identifier = shop_identifier,
                            !.bank_id = bank_id,
                            !.response = Op("recalculate_all", TRUE, "", shop_identifier,
                                            bank_id, 0, 0, 0, FALSE)],
            "recalculate_all.call")
    /\ UNCHANGED <<banks, entries, nextBankId, nextEntryId, now>>

(***************************************************************************)
(* app.py: add_entry, step by step.  The list of the shop's banks read for *)
(* the page (banks_col.find) goes into the response only.                  *)
(***************************************************************************)
add_entry_find_bank(p, shop_identifier, bank_id, entry_date, credited_raw, debited_raw) ==
    LET credited == parse_non_negative_float(credited_raw)
        debited == parse_non_negative_float(debited_raw)
        found == find_bank(banks, bank_id, shop_identifier)
    IN /\ inflight[p].pc = "idle"
       /\ IF credited = NoneVal \/ debited = NoneVal
          THEN Returns(p, Refusal("add_entry", "invalid amount"))
          ELSE IF credited > 0 /\ debited > 0
          THEN Returns(p, Refusal("add_entry", "both amounts"))
          ELSE IF credited = 0 /\ debited = 0
          THEN Returns(p, Refusal("add_entry", "no amount"))
          ELSE IF found = {}
          THEN Returns(p, Refusal("add_entry", "bank not found"))
          ELSE Goes(p, [Idle EXCEPT !.pc = "add_entry.now",
                                    !.shop_identifier = shop_identifier,
                                    !.bank_id = bank_id,
                                    !.date = entry_date,
                                    !.request = <<CHOOSE b \in found : TRUE, credited, debited>>],
                    "add_entry.find_bank")
       /\ UNCHANGED <<banks, entries, nextBankId, nextEntryId, now>>

\* datetime.now(), read once the bank lookup has returned: the entry's
\* timestamp is the entry date at the time of day of this moment
add_entry_now(p) ==
    LET call == inflight[p]
    IN /\ call.pc = "add_entry.now"
       /\ Goes(p, [call EXCEPT !.pc = "add_entry.find_one",
                               !.request = <<call.request[1], call.request[2], call.request[3],
                                             entry_datetime_of(call.date, now.tod)>>],
               "add_entry.now")
       /\ UNCHANGED <<banks, entries, nextBankId, nextEntryId, now>>

\* the last_entry lookup; request holds the bank document, the amounts, the
\* timestamp, the resolved opening balance, and whether the date is before
\* the bank's latest entry
add_entry_find_one(p) ==
    LET call == inflight[p]
        bank == call.request[1]
    IN /\ call.pc = "add_entry.find_one"
       /\ \E last_entry \in last_entry_choices(entries, call.bank_id, call.shop_identifier,
                                               call.date) :
            Goes(p, [call EXCEPT !.pc = "add_entry.insert_one",
                                 !.request = <<bank, call.request[2], call.request[3],
                                               call.request[4],
                                               resolve_opening_balance(bank, last_entry),
                                               is_backdated(entries, call.bank_id,
                                                            call.shop_identifier, call.date)>>],
                 "add_entry.find_one")
       /\ UNCHANGED <<banks, entries, nextBankId, nextEntryId, now>>

add_entry_insert_one(p) ==
    LET call == inflight[p]
        bank == call.request[1]
        credited == call.request[2]
        debited == call.request[3]
        entry_datetime == call.request[4]
        opening_balance == call.request[5]
        remaining_balance == opening_balance + credited - debited
        doc == [id |-> nextEntryId,
                date |-> call.date,
                time |-> strftime(entry_datetime),
                entry_datetime |-> entry_datetime,
                bank_id |-> call.bank_id,
                bank_name |-> bank.name,
                opening_balance |-> opening_balance,
                credited |-> credited,
                debited |-> debited,
                remaining_balance |-> remaining_balance,
                shop_identifier |-> call.shop_identifier]
        response == Op("add_entry", TRUE, "", call.shop_identifier, call.bank_id, call.date,
                       nextEntryId, opening_balance, call.request[6])
    IN /\ call.pc = "add_entry.insert_one"
       /\ entries' = entries \cup {doc}
       /\ nextEntryId' = nextEntryId + 1
       /\ inflight' = [inflight EXCEPT ![p] = [call EXCEPT !.pc = "recalculate.find_bank",
                                                           !.request = <<>>,
                                                           !.response = response]]
       /\ lastOp' = [response EXCEPT !.op = "add_entry.insert_one"]
       /\ UNCHANGED <<banks, nextBankId, now>>

(***************************************************************************)
(* app.py: bank_balance, step by step                                      *)
(***************************************************************************)
bank_balance_find_bank(p, shop_identifier, bank_id, entry_date) ==
    LET found == find_bank(banks, bank_id, shop_identifier)
    IN /\ inflight[p].pc = "idle"
       /\ IF found = {}
          THEN Returns(p, Refusal("bank_balance", "bank not found"))
          ELSE Goes(p, [Idle EXCEPT !.pc = "bank_balance.find_one",
                                    !.shop_identifier = shop_identifier,
                                    !.bank_id = bank_id,
                                    !.date = entry_date,
                                    !.request = <<CHOOSE b \in found : TRUE>>],
                    "bank_balance.find_bank")
       /\ UNCHANGED <<banks, entries, nextBankId, nextEntryId, now>>

bank_balance_find_one(p) ==
    LET call == inflight[p]
    IN /\ call.pc = "bank_balance.find_one"
       /\ \E last_entry \in last_entry_choices(entries, call.bank_id, call.shop_identifier,
                                               call.date) :
            Returns(p, Op("bank_balance", TRUE, "", call.shop_identifier, call.bank_id,
                          call.date, 0, resolve_opening_balance(call.request[1], last_entry),
                          FALSE))
       /\ UNCHANGED <<banks, entries, nextBankId, nextEntryId, now>>

(***************************************************************************)
(* app.py: edit_entry and delete_entry, step by step                       *)
(***************************************************************************)
\* entries_col.find_one; request holds the entry id and the submitted amounts
edit_entry_find_one(p, shop_identifier, entry_id, credited_raw, debited_raw) ==
    LET found == find_entry(entries, entry_id, shop_identifier)
    IN /\ inflight[p].pc = "idle"
       /\ IF found = {}
          THEN Returns(p, Refusal("edit_entry", "entry not found"))
          ELSE LET entry == CHOOSE e \in found : TRUE
               IN Goes(p, [Idle EXCEPT !.pc = "edit_entry.today",
                                       !.shop_identifier = shop_identifier,
                                       !.bank_id = entry.bank_id,
                                       !.date = entry.date,
                                       !.request = <<entry_id, credited_raw, debited_raw>>],
                       "edit_entry.find_one")
       /\ UNCHANGED <<banks, entries, nextBankId, nextEntryId, now>>

\* the step without the comparison of the entry's date with today
edit_entry_today_any_day(p) ==
    LET call == inflight[p]
        credited == parse_non_negative_float(call.request[2])
        debited == parse_non_negative_float(call.request[3])
    IN /\ call.pc = "edit_entry.today"
       /\ IF credited = NoneVal \/ debited = NoneVal
          THEN Returns(p, Refusal("edit_entry", "invalid amount"))
          ELSE IF credited > 0 /\ debited > 0
          THEN Returns(p, Refusal("edit_entry", "both amounts"))
          ELSE Goes(p, [call EXCEPT !.pc = "edit_entry.update_one",
                                    !.request = <<call.request[1], credited, debited>>],
                    "edit_entry.today")
       /\ UNCHANGED <<banks, entries, nextBankId, nextEntryId, now>>

\* date.today(), read once the lookup has returned, compared with the date
\* of the entry read; then the amounts are parsed
edit_entry_today(p) ==
    LET call == inflight[p]
        credited == parse_non_negative_float(call.request[2])
        debited == parse_non_negative_float(call.request[3])
    IN /\ call.pc = "edit_entry.today"
       /\ IF call.date # now.date
          THEN Returns(p, Refusal("edit_entry", "not same day"))
          ELSE IF credited = NoneVal \/ debited = NoneVal
          THEN Returns(p, Refusal("edit_entry", "invalid amount"))
          ELSE IF credited > 0 /\ debited > 0
          THEN Returns(p, Refusal("edit_entry", "both amounts"))
          ELSE Goes(p, [call EXCEPT !.pc = "edit_entry.update_one",
                                    !.request = <<call.request[1], credited, debited>>],
                    "edit_entry.today")
       /\ UNCHANGED <<banks, entries, nextBankId, nextEntryId, now>>

\* update_one selects by _id alone; an entry deleted meanwhile matches nothing
edit_entry_update_one(p) ==
    LET call == inflight[p]
        response == Op("edit_entry", TRUE, "", call.shop_identifier, call.bank_id, call.date,
                       call.request[1], 0, FALSE)
    IN /\ call.pc = "edit_entry.update_one"
       /\ entries' = {IF e.id = call.request[1]
                      THEN [e EXCEPT !.credited = call.request[2], !.debited = call.request[3]]
                      ELSE e : e \in entries}
       /\ inflight' = [inflight EXCEPT ![p] = [call EXCEPT !.pc = "recalculate.find_bank",
                                                           !.request = <<>>,
                                                           !.response = response]]
       /\ lastOp' = [response EXCEPT !.op = "edit_entry.update_one"]
       /\ UNCHANGED <<banks, nextBankId, nextEntryId, now>>

delete_entry_find_one(p, shop_identifier, entry_id) ==
    LET found == find_entry(entries, entry_id, shop_identifier)
    IN /\ inflight[p].pc = "idle"
       /\ IF found = {}
          THEN Returns(p, Refusal("delete_entry", "entry not found"))
          ELSE LET entry == CHOOSE e \in found : TRUE
               IN Goes(p, [Idle EXCEPT !.pc = "delete_entry.today",
                                       !.shop_identifier = shop_identifier,
                                       !.bank_id = entry.bank_id,
                                       !.date = entry.date,
                                       !.request = <<entry_id>>],
                       "delete_entry.find_one")
       /\ UNCHANGED <<banks, entries, nextBankId, nextEntryId, now>>

\* date.today(), read once the lookup has returned, compared with the date
\* of the entry read
delete_entry_today(p) ==
    LET call == inflight[p]
    IN /\ call.pc = "delete_entry.today"
       /\ IF call.date # now.date
          THEN Returns(p, Refusal("delete_entry", "not same day"))
          ELSE Goes(p, [call EXCEPT !.pc = "delete_entry.delete_one"], "delete_entry.today")
       /\ UNCHANGED <<banks, entries, nextBankId, nextEntryId, now>>

delete_entry_delete_one(p) ==
    LET call == inflight[p]
        response == Op("delete_entry", TRUE, "", call.shop_identifier, call.bank_id, call.date,
                       call.request[1], 0, FALSE)
    IN /\ call.pc = "delete_entry.delete_one"
       /\ entries' = {e \in entries : e.id # call.request[1]}
       /\ inflight' = [inflight EXCEPT ![p] = [call EXCEPT !.pc = "recalculate.find_bank",
                                                           !.request = <<>>,
                                                           !.response = response]]
       /\ lastOp' = [response EXCEPT !.op = "delete_entry.delete_one"]
       /\ UNCHANGED <<banks, nextBankId, nextEntryId, now>>

(***************************************************************************)
(* banks.py: recalculate_bank_balances_from_date, step by step: the bank   *)
(* lookup, the prev_entry lookup that gives the base balance, the unlocked *)
(* read of the entries with bulk_ops computed from it, and the batched     *)
(* write.  When the call returns, a period deletion calls it again for the *)
(* next affected bank; every other caller returns.                         *)
(***************************************************************************)
from_date_return(p, call, response, step) ==
    IF call.queue = <<>>
    THEN Returns(p, response)
    ELSE Goes(p, [call EXCEPT !.pc = "from_date.find_bank",
                              !.bank_id = Head(call.queue),
                              !.queue = Tail(call.queue),
                              !.updates = {},
                              !.locals = <<>>,
                              !.response = response],
              step)

\* the lookup after which the call goes on, from a balance of zero, when
\* the bank is not found
from_date_find_bank_without_bank(p) ==
    LET call == inflight[p]
        found == find_bank(banks, call.bank_id, call.shop_identifier)
    IN /\ call.pc = "from_date.find_bank"
       /\ Goes(p, [call EXCEPT !.pc = "from_date.find_one",
                               !.locals = <<IF found = {} THEN [opening_balance |-> 0]
                                            ELSE CHOOSE b \in found : TRUE>>],
               "from_date.find_bank")
       /\ UNCHANGED <<banks, entries, nextBankId, nextEntryId, now>>

from_date_find_bank(p) ==
    LET call == inflight[p]
        found == find_bank(banks, call.bank_id, call.shop_identifier)
    IN /\ call.pc = "from_date.find_bank"
       /\ IF to_object_id(call.bank_id) = NoneVal \/ found = {}
          THEN from_date_return(p, call, bank_missing(call.response), "from_date.find_bank")
          ELSE Goes(p, [call EXCEPT !.pc = "from_date.find_one",
                                    !.locals = <<CHOOSE b \in found : TRUE>>],
                    "from_date.find_bank")
       /\ UNCHANGED <<banks, entries, nextBankId, nextEntryId, now>>

\* locals holds the bank document, then the base balance, then the _ids of
\* bulk_ops in their order
from_date_find_one(p) ==
    LET call == inflight[p]
        bank == call.locals[1]
    IN /\ call.pc = "from_date.find_one"
       /\ \E prev_entry \in prev_entry_choices(entries, call.bank_id, call.shop_identifier,
                                               call.date) :
            LET base_balance == max0(IF prev_entry # NoEntry THEN prev_entry.remaining_balance
                                     ELSE bank.opening_balance)
            IN Goes(p, [call EXCEPT !.pc = "from_date.find", !.locals = <<base_balance>>],
                    "from_date.find_one")
       /\ UNCHANGED <<banks, entries, nextBankId, nextEntryId, now>>

from_date_fetch(p) ==
    LET call == inflight[p]
    IN /\ call.pc = "from_date.find"
       /\ \E raw \in storage_orders(from_date_raw_entries(entries, call.bank_id,
                                                          call.shop_identifier, call.date)) :
            LET ordered == sorted_by_parse_entry_datetime(raw)
                bulk_ops == from_date_replay(ordered, 1, call.locals[1])
            IN IF bulk_ops = {}
               THEN from_date_return(p, call, call.response, "from_date.find")
               ELSE Goes(p, [call EXCEPT !.pc = "from_date.bulk_write",
                                         !.updates = bulk_ops,
                                         !.locals = <<[i \in 1..Len(ordered) |-> ordered[i].id]>>],
                         "from_date.find")
       /\ UNCHANGED <<banks, entries, nextBankId, nextEntryId, now>>

from_date_write(p) ==
    LET call == inflight[p]
    IN /\ call.pc = "from_date.bulk_write"
       /\ entries' = bulk_write(entries, call.updates)
       /\ from_date_return(p, call, call.response, "from_date.bulk_write")
       /\ UNCHANGED <<banks, nextBankId, nextEntryId, now>>

\* the failure that goes up to the handler, which gives up and reports it
from_date_failure_raised(p) ==
    LET call == inflight[p]
    IN /\ call.pc \in {"from_date.find_bank", "from_date.find_one", "from_date.find",
                       "from_date.bulk_write"}
       /\ Returns(p, [call.response EXCEPT !.ok = FALSE, !.why = "recalculation failed"])
       /\ UNCHANGED <<banks, entries, nextBankId, nextEntryId, now>>

\* A storage operation of the call raises: the lookups and the read write
\* nothing, bulk_write has applied its first k updates.  The except clause
\* logs the error and the call returns.
from_date_failure(p) ==
    LET call == inflight[p]
        failed == [call.response EXCEPT !.why = "recalculation failed"]
    IN /\ call.pc \in {"from_date.find_bank", "from_date.find_one", "from_date.find",
                       "from_date.bulk_write"}
       /\ IF call.pc = "from_date.bulk_write"
          THEN \E k \in 0..Len(call.locals[1]) :
                 entries' = bulk_write(entries,
                                       {u \in call.updates :
                                           \E i \in 1..k : call.locals[1][i] = u.id})
          ELSE entries' = entries
       /\ from_date_return(p, call, failed, "from_date.failure")
       /\ UNCHANGED <<banks, nextBankId, nextEntryId, now>>

\* The engine's recalculate(bank_id, from_date) called on its own.  Its
\* record tells whether it repeats the call that has just returned, and
\* whether it follows an accepted add_entry on its bank and date that was
\* dated before an entry of the bank.
recalculate_call(p, shop_identifier, bank_id, start_date) ==
    LET same == /\ lastOp.ok
                /\ lastOp.shop_identifier = shop_identifier
                /\ lastOp.bank_id = bank_id
                /\ lastOp.date = start_date
    IN /\ inflight[p].pc = "idle"
       /\ Goes(p, [Idle EXCEPT !.pc = "from_date.find_bank",
                               !.shop_identifier = shop_identifier,
                               !.bank_id = bank_id,
                               !.date = start_date,
                               !.response = Op("recalculate", TRUE,
                                               IF same /\ lastOp.op = "recalculate"
                                               THEN "repeated" ELSE "",
                                               shop_identifier, bank_id, start_date, 0, 0,
                                               same /\ lastOp.op = "add_entry" /\ lastOp.flag)],
               "recalculate.call")
       /\ UNCHANGED <<banks, entries, nextBankId, nextEntryId, now>>

(***************************************************************************)
(* banks.py: add_bank, step by step: the path that creates a bank and the  *)
(* path that edits one.                                                    *)
(***************************************************************************)
banks_add_bank_find_existing(p, shop_identifier, bank_name, opening_balance_raw) ==
    LET opening_balance == parse_non_negative_float(opening_balance_raw)
        existing_bank == {b \in banks : /\ b.shop_identifier = shop_identifier
                                        /\ name_matches_ignoring_case(b.name, bank_name)}
    IN /\ inflight[p].pc = "idle"
       /\ IF bank_name = ""
          THEN Returns(p, Refusal("banks.add_bank", "invalid name"))
          ELSE IF existing_bank # {}
          THEN Returns(p, Refusal("banks.add_bank", "name exists"))
          ELSE IF opening_balance = NoneVal
          THEN Returns(p, Refusal("banks.add_bank", "invalid opening balance"))
          ELSE Goes(p, [Idle EXCEPT !.pc = "banks.add_bank.insert_one",
                                    !.shop_identifier = shop_identifier,
                                    !.request = <<bank_name, opening_balance>>],
                    "banks.add_bank.find_existing")
       /\ UNCHANGED <<banks, entries, nextBankId, nextEntryId, now>>

banks_add_bank_insert_one(p) ==
    LET call == inflight[p]
    IN /\ call.pc = "banks.add_bank.insert_one"
       /\ banks' = banks \cup {[id |-> nextBankId, name |-> call.request[1],
                                opening_balance |-> call.request[2],
                                shop_identifier |-> call.shop_identifier]}
       /\ nextBankId' = nextBankId + 1
       /\ Returns(p, Op("banks.add_bank", TRUE, "", call.shop_identifier, nextBankId,
                        0, 0, 0, FALSE))
       /\ UNCHANGED <<entries, nextEntryId, now>>

banks_edit_bank_find_one(p, shop_identifier, edit_bank_id, bank_name, opening_balance_raw) ==
    LET opening_balance == parse_non_negative_float(opening_balance_raw)
    IN /\ inflight[p].pc = "idle"
       /\ edit_bank_id # 0
       /\ IF find_bank(banks, edit_bank_id, shop_identifier) = {}
          THEN Returns(p, Refusal("banks.edit_bank", "bank not found"))
          ELSE IF bank_name = ""
          THEN Returns(p, Refusal("banks.edit_bank", "invalid name"))
          ELSE Goes(p, [Idle EXCEPT !.pc = "banks.edit_bank.find_existing",
                                    !.shop_identifier = shop_identifier,
                                    !.bank_id = edit_bank_id,
                                    !.request = <<bank_name, opening_balance>>],
                    "banks.edit_bank.find_one")
       /\ UNCHANGED <<banks, entries, nextBankId, nextEntryId, now>>

banks_edit_bank_find_existing(p) ==
    LET call == inflight[p]
        existing_bank == {b \in banks : /\ b.shop_identifier = call.shop_identifier
                                        /\ name_matches_ignoring_case(b.name, call.request[1])
                                        /\ b.id # call.bank_id}
    IN /\ call.pc = "banks.edit_bank.find_existing"
       /\ IF existing_bank # {}
          THEN Returns(p, Refusal("banks.edit_bank", "name exists"))
          ELSE IF call.request[2] = NoneVal
          THEN Returns(p, Refusal("banks.edit_bank", "invalid opening balance"))
          ELSE Goes(p, [call EXCEPT !.pc = "banks.edit_bank.update_one"],
                    "banks.edit_bank.find_existing")
       /\ UNCHANGED <<banks, entries, nextBankId, nextEntryId, now>>

\* update_one selects by _id alone
banks_edit_bank_update_one(p) ==
    LET call == inflight[p]
        response == Op("banks.edit_bank", TRUE, "", call.shop_identifier, call.bank_id, 0, 0,
                       call.request[2], FALSE)
    IN /\ call.pc = "banks.edit_bank.update_one"
       /\ banks' = {IF b.id = call.bank_id
                    THEN [b EXCEPT !.name = call.request[1], !.opening_balance = call.request[2]]
                    ELSE b : b \in banks}
       /\ inflight' = [inflight EXCEPT ![p] = [call EXCEPT !.pc = "banks.edit_bank.find_earliest",
                                                           !.request = <<>>,
                                                           !.response = response]]
       /\ lastOp' = [response EXCEPT !.op = "banks.edit_bank.update_one"]
       /\ UNCHANGED <<entries, nextBankId, nextEntryId, now>>

\* the earliest_entry lookup, then the recalculation from its date
banks_edit_bank_find_earliest(p) ==
    LET call == inflight[p]
        mine == app_raw_entries(entries, call.bank_id, call.shop_identifier)
    IN /\ call.pc = "banks.edit_bank.find_earliest"
       /\ IF mine = {}
          THEN Returns(p, call.response)
          ELSE \E earliest_entry \in find_one_earliest(mine) :
                 Goes(p, [call EXCEPT !.pc = "from_date.find_bank",
                                      !.date = earliest_entry.date],
                      "banks.edit_bank.find_earliest")
       /\ UNCHANGED <<banks, entries, nextBankId, nextEntryId, now>>

(***************************************************************************)
(* banks.py: delete_bank, step by step                                     *)
(***************************************************************************)
banks_delete_bank_find_one(p, shop_identifier, bank_id, password) ==
    /\ inflight[p].pc = "idle"
    /\ IF password = "" \/ ~check_password_hash_fn(shop_identifier, password)
       THEN Returns(p, Refusal("banks.delete_bank", "incorrect password"))
       ELSE IF find_bank(banks, bank_id, shop_identifier) = {}
       THEN Returns(p, Refusal("banks.delete_bank", "bank not found"))
       ELSE Goes(p, [Idle EXCEPT !.pc = "banks.delete_bank.delete_many",
                                 !.shop_identifier = shop_identifier,
                                 !.bank_id = bank_id],
                 "banks.delete_bank.find_one")
    /\ UNCHANGED <<banks, entries, nextBankId, nextEntryId, now>>

banks_delete_bank_delete_many(p) ==
    LET call == inflight[p]
    IN /\ call.pc = "banks.delete_bank.delete_many"
       /\ entries' = {e \in entries : ~(/\ e.bank_id = call.bank_id
                                        /\ e.shop_identifier = call.shop_identifier)}
       /\ Goes(p, [call EXCEPT !.pc = "banks.delete_bank.delete_one"],
               "banks.delete_bank.delete_many")
       /\ UNCHANGED <<banks, nextBankId, nextEntryId, now>>

banks_delete_bank_delete_one(p) ==
    LET call == inflight[p]
    IN /\ call.pc = "banks.delete_bank.delete_one"
       /\ banks' = {b \in banks : b.id # call.bank_id}
       /\ Returns(p, Op("banks.delete_bank", TRUE, "", call.shop_identifier, call.bank_id,
                        0, 0, 0, FALSE))
       /\ UNCHANGED <<entries, nextBankId, nextEntryId, now>>

(***************************************************************************)
(* reports.py: delete_report_data, step by step: the distinct bank ids of  *)
(* the range, the deletion of the range, then one recalculation from the   *)
(* first date of the range for each of those banks.                        *)
(***************************************************************************)
\* entries_col.distinct("bank_id", query): the bank ids of the entries es,
\* each once.  The storage promises no order: every order is a possible
\* answer.
distinct_bank_id(es) ==
    LET ids == {e.bank_id : e \in es}
    IN {ordered \in [1..Cardinality(ids) -> ids] :
           \A bank_id \in ids : \E i \in 1..Cardinality(ids) : ordered[i] = bank_id}

\* request holds the first and the last date of the range and the affected
\* bank ids
delete_report_data_distinct(p, shop_identifier, delete_type, period_value, password) ==
    LET range == IF delete_type = "month" THEN get_month_date_range(period_value)
                 ELSE get_year_date_range(period_value)
        in_range == {e \in entries : /\ e.date >= range[1] /\ e.date <= range[2]
                                     /\ e.shop_identifier = shop_identifier}
    IN /\ inflight[p].pc = "idle"
       /\ IF delete_type \notin {"month", "year"}
          THEN Returns(p, Refusal("delete_report_data", "invalid type"))
          ELSE IF range[1] = 0
          THEN Returns(p, Refusal("delete_report_data", "invalid period"))
          ELSE IF password = "" \/ ~check_password_hash_fn(shop_identifier, password)
          THEN Returns(p, Refusal("delete_report_data", "incorrect password"))
          ELSE \E affected_bank_ids \in distinct_bank_id(in_range) :
                 Goes(p, [Idle EXCEPT !.pc = "delete_report_data.delete_many",
                                      !.shop_identifier = shop_identifier,
                                      !.date = range[1],
                                      !.request = <<range[1], range[2],
                                                    {e.bank_id : e \in in_range}>>,
                                      !.queue = affected_bank_ids,
                                      !.response = Op("delete_report_data", TRUE, "",
                                                      shop_identifier, 0, range[1], 0, range[2],
                                                      FALSE)],
                      "delete_report_data.distinct")
       /\ UNCHANGED <<banks, entries, nextBankId, nextEntryId, now>>

delete_report_data_delete_many(p) ==
    LET call == inflight[p]
    IN /\ call.pc = "delete_report_data.delete_many"
       /\ entries' = {e \in entries : ~(/\ e.date >= call.request[1] /\ e.date <= call.request[2]
                                        /\ e.shop_identifier = call.shop_identifier)}
       /\ from_date_return(p, call, call.response, "delete_report_data.delete_many")
       /\ UNCHANGED <<banks, nextBankId, nextEntryId, now>>

Init ==
    /\ banks = {}
    /\ entries = {}
    /\ nextBankId = 1
    /\ nextEntryId = 1
    /\ now = [date |-> 1, tod |-> 0]
    /\ inflight = [p \in Procs |-> Idle]
    /\ lastOp = Op("init", TRUE, "", "", 0, 0, 0, 0, FALSE)

(***************************************************************************)
(* The steps of the requests, served by the workers W, with their inputs   *)
(* drawn from the given sets: the session shops SS, bank names NN, opening *)
(* balances OO, credited and debited amounts CC and XX, delete types TT,   *)
(* passwords PP.  A run creates at most MaxBanks banks and at most cap     *)
(* entries, those about to be inserted counted in.                         *)
(***************************************************************************)
\* the server taking one request at a time
OneWorker == {CHOOSE p \in Procs : \A q \in Procs : p <= q}

inserting_bank == pending({"app.add_bank.insert_one", "banks.add_bank.insert_one"})

inserting_entry == pending({"add_entry.now", "add_entry.find_one", "add_entry.insert_one"})

AddBankSteps(W, SS, NN, OO) ==
    \/ \E p \in W, s \in SS, n \in NN, o \in OO :
         nextBankId + inserting_bank <= MaxBanks /\ app_add_bank_find_one(p, s, n, o)
    \/ \E p \in W : app_add_bank_insert_one(p)

EditBankSteps(W, SS, NN, OO) ==
    \/ \E p \in W, s \in SS, b \in BankIdInputs, n \in NN, o \in OO :
         edit_bank_find_one(p, s, b, n, o)
    \/ \E p \in W : edit_bank_find_existing(p)
    \/ \E p \in W : edit_bank_update_one(p)

BanksAddBankSteps(W, SS, NN, OO) ==
    \/ \E p \in W, s \in SS, n \in NN, o \in OO :
         nextBankId + inserting_bank <= MaxBanks /\ banks_add_bank_find_existing(p, s, n, o)
    \/ \E p \in W : banks_add_bank_insert_one(p)

\* the recalculation it calls is in FromDateSteps
BanksEditBankSteps(W, SS, NN, OO) ==
    \/ \E p \in W, s \in SS, b \in BankIdInputs, n \in NN, o \in OO :
         banks_edit_bank_find_one(p, s, b, n, o)
    \/ \E p \in W : banks_edit_bank_find_existing(p)
    \/ \E p \in W : banks_edit_bank_update_one(p)
    \/ \E p \in W : banks_edit_bank_find_earliest(p)

BankSteps(W, SS, NN, OO) ==
    \/ AddBankSteps(W, SS, NN, OO)
    \/ EditBankSteps(W, SS, NN, OO)
    \/ BanksAddBankSteps(W, SS, NN, OO)
    \/ BanksEditBankSteps(W, SS, NN, OO)

DeleteBankSteps(W, SS) ==
    \/ \E p \in W, s \in SS, b \in BankIdInputs : app_delete_bank_find_one(p, s, b)
    \/ \E p \in W : app_delete_bank_delete_many(p)
    \/ \E p \in W : app_delete_bank_delete_one(p)

BanksDeleteBankSteps(W, SS, PP) ==
    \/ \E p \in W, s \in SS, b \in BankIdInputs, w \in PP :
         banks_delete_bank_find_one(p, s, b, w)
    \/ \E p \in W : banks_delete_bank_delete_many(p)
    \/ \E p \in W : banks_delete_bank_delete_one(p)

BankDeletionSteps(W, SS, PP) ==
    \/ DeleteBankSteps(W, SS)
    \/ BanksDeleteBankSteps(W, SS, PP)

\* the recalculation it calls is in RecalculateSteps, as for the two
\* groups after the next
AddEntrySteps(W, SS, BB, DD, CC, XX, cap) ==
    \/ \E p \in W, s \in SS, b \in BB, d \in DD, c \in CC, x \in XX :
         nextEntryId + inserting_entry <= cap /\ add_entry_find_bank(p, s, b, d, c, x)
    \/ \E p \in W : add_entry_now(p)
    \/ \E p \in W : add_entry_find_one(p)
    \/ \E p \in W : add_entry_insert_one(p)

BalanceSteps(W, SS) ==
    \/ \E p \in W, s \in SS, b \in BankIdInputs, d \in Dates :
         bank_balance_find_bank(p, s, b, d)
    \/ \E p \in W : bank_balance_find_one(p)

EditEntrySteps(W, SS, CC, XX) ==
    \/ \E p \in W, s \in SS, i \in EntryIdInputs, c \in CC, x \in XX :
         edit_entry_find_one(p, s, i, c, x)
    \/ \E p \in W : edit_entry_today(p)
    \/ \E p \in W : edit_entry_update_one(p)

DeleteEntrySteps(W, SS) ==
    \/ \E p \in W, s \in SS, i \in EntryIdInputs : delete_entry_find_one(p, s, i)
    \/ \E p \in W : delete_entry_today(p)
    \/ \E p \in W : delete_entry_delete_one(p)

\* recalculate_bank_balances, as the entry handlers call it
RecalculateSteps(W) ==
    \/ \E p \in W : recalculate_find_bank(p)
    \/ \E p \in W : recalculate_fetch(p)
    \/ \E p \in W : recalculate_write(p)

EntrySteps(W, SS, CC, XX, cap) ==
    \/ AddEntrySteps(W, SS, BankIdInputs, Dates, CC, XX, cap)
    \/ BalanceSteps(W, SS)
    \/ EditEntrySteps(W, SS, CC, XX)
    \/ DeleteEntrySteps(W, SS)
    \/ RecalculateSteps(W)

\* recalculate_bank_balances_from_date, as its callers call it
FromDateSteps(W) ==
    \/ \E p \in W : from_date_find_bank(p)
    \/ \E p \in W : from_date_find_one(p)
    \/ \E p \in W : from_date_fetch(p)
    \/ \E p \in W : from_date_write(p)

EngineSteps(W, SS, BB) ==
    \/ \E p \in W, s \in SS, b \in BB, d \in Dates : recalculate_call(p, s, b, d)
    \/ FromDateSteps(W)

\* the recalculations it calls are in FromDateSteps
ReportSteps(W, SS, TT, PP) ==
    \/ \E p \in W, s \in SS, t \in TT, v \in PeriodInputs, w \in PP :
         delete_report_data_distinct(p, s, t, v, w)
    \/ \E p \in W : delete_report_data_delete_many(p)

\* Every handler, every input, the requests overlapping as they come.
Next ==
    \/ BankSteps(Procs, Shops, NameInputs, OpeningInputs)
    \/ BankDeletionSteps(Procs, Shops, PasswordInputs)
    \/ EntrySteps(Procs, Shops, CreditInputs, DebitInputs, MaxEntries)
    \/ EngineSteps(Procs, Shops, BankIdInputs)
    \/ \E p \in Procs : from_date_failure(p)
    \/ ReportSteps(Procs, Shops, {"month", "year", ""}, PasswordInputs)
    \/ advance_clock

Spec == Init /\ [][Next]_vars

\* One shop keeping the ledger of one bank, which it never deletes, one
\* request at a time.
NextLedger ==
    \/ BankSteps(OneWorker, {"s1"}, {"a"}, {0, 200})
    \/ EntrySteps(OneWorker, {"s1"}, {0, 100}, {0, 200}, LedgerEntries)
    \/ EngineSteps(OneWorker, {"s1"}, BankIdInputs)
    \/ ReportSteps(OneWorker, {"s1"}, {"month", "year"}, {"pw-s1"})
    \/ advance_clock

SpecLedger == Init /\ [][NextLedger]_vars

\* One shop opening one bank with 1000 and recording entries in it, one
\* request at a time.
NextScenario ==
    \/ nextBankId <= 1 /\ AddBankSteps(OneWorker, {"s1"}, {"a"}, {1000})
    \/ AddEntrySteps(OneWorker, {"s1"}, {1}, Dates, {0, 100, 500}, {0, 200}, ScenarioEntries)
    \/ RecalculateSteps(OneWorker)
    \/ EngineSteps(OneWorker, {"s1"}, {1})
    \/ advance_clock

SpecScenario == Init /\ [][NextScenario]_vars

(***************************************************************************)
(* The engine on a store it did not write: documents left by earlier       *)
(* revisions, with time strings in either format or in none, a stored      *)
(* entry_datetime that may be datetime.min, and balances that may be       *)
(* stale.  Bank 1 belongs to s1; bank 2 to s1 or to s2.  One call runs at  *)
(* a time.                                                                 *)
(***************************************************************************)
LegacyBanks ==
    {{[id |-> 1, name |-> "a", opening_balance |-> 1000, shop_identifier |-> "s1"],
      [id |-> 2, name |-> n2, opening_balance |-> 0, shop_identifier |-> s2]} :
        <<n2, s2>> \in {<<"b", "s1">>, <<"a", "s2">>}}

LegacyDocs(bs, i) ==
    UNION {
      {[id |-> i,
        date |-> d,
        time |-> t,
        entry_datetime |-> dt,
        bank_id |-> b.id,
        bank_name |-> b.name,
        opening_balance |-> 0,
        credited |-> a[1],
        debited |-> a[2],
        remaining_balance |-> r,
        shop_identifier |-> b.shop_identifier] :
          b \in bs,
          dt \in {DatetimeMin, parse_entry_datetime([date |-> d, time |-> t])},
          a \in {<<100, 0>>, <<0, 200>>}, r \in {0, 100}} :
        d \in Dates, t \in TimeStrings}

RECURSIVE LegacyStores(_, _)
LegacyStores(bs, n) ==
    IF n = 0 THEN {{}}
    ELSE LET smaller == LegacyStores(bs, n - 1)
         IN smaller \cup {es \cup {doc} : es \in {x \in smaller : Cardinality(x) = n - 1},
                                         doc \in LegacyDocs(bs, n)}

InitRecalc ==
    /\ banks \in LegacyBanks
    /\ entries \in LegacyStores(banks, LegacyEntries)
    /\ nextBankId = 3
    /\ nextEntryId = LegacyEntries + 1
    /\ now = [date |-> 1, tod |-> 0]
    /\ inflight = [p \in Procs |-> Idle]
    /\ lastOp = Op("init", TRUE, "", "", 0, 0, 0, 0, FALSE)

NextRecalc == EngineSteps(OneWorker, Shops, BankIdInputs)

SpecRecalc == InitRecalc /\ [][NextRecalc]_vars

(***************************************************************************)
(* Properties.  A bank's chain is its entries in ascending (date, time)    *)
(* order; entries with the same timestamp may stand in either order.       *)
(***************************************************************************)
entries_of(es, b) ==
    {e \in es : e.bank_id = b.id /\ e.shop_identifier = b.shop_identifier}

ascending(es) ==
    {r \in Orders(es) :
        \A i \in 1..(Len(r) - 1) :
            parse_entry_datetime(r[i]) <= parse_entry_datetime(r[i + 1])}

chained_opening(b, r, i) ==
    IF i = 1 THEN b.opening_balance ELSE r[i - 1].remaining_balance

chain_holds(b, r) ==
    \A i \in 1..Len(r) :
        /\ r[i].opening_balance = chained_opening(b, r, i)
        /\ r[i].remaining_balance =
               max0(r[i].opening_balance + r[i].credited - r[i].debited)

\* no request is in service
settled == \A p \in Procs : inflight[p].pc = "idle"

\* C1: whenever the requests so far, served one after the other, have all
\* returned, every bank's entries in ascending (date, time) order satisfy:
\* the first entry's opening equals the bank's opening balance, every later
\* entry's opening equals its predecessor's remaining, and every remaining
\* equals max(0, opening + credited - debited).
ChainInvariant ==
    \A b \in banks :
        settled => \E r \in ascending(entries_of(entries, b)) : chain_holds(b, r)

(***************************************************************************)
(* One call of a recalculation run on its own on the store (bs, es), from  *)
(* its bank lookup to its bulk_write with no step of another request in    *)
(* between: what the steps of the call, taken back to back, leave stored.  *)
(***************************************************************************)
\* prev_entry is the document find_one returns, raw the order in which the
\* storage returns the entries of the range
from_date_alone(bs, es, shop_identifier, bank_id, start_date, prev_entry, raw) ==
    IF to_object_id(bank_id) = NoneVal \/ find_bank(bs, bank_id, shop_identifier) = {} THEN es
    ELSE LET bank == CHOOSE b \in find_bank(bs, bank_id, shop_identifier) : TRUE
             base_balance ==
                 max0(IF prev_entry # NoEntry THEN prev_entry.remaining_balance
                      ELSE bank.opening_balance)
         IN bulk_write(es, from_date_replay(sorted_by_parse_entry_datetime(raw), 1, base_balance))

from_date_outcomes(bs, es, shop_identifier, bank_id, start_date) ==
    UNION {{from_date_alone(B, E, shop_identifier, bank_id, start_date, p, raw) :
               p \in prev_entry_choices(E, bank_id, shop_identifier, start_date),
               raw \in storage_orders(from_date_raw_entries(E, bank_id, shop_identifier, start_date))} :
           B \in {bs}, E \in {es}}

app_outcomes(bs, es, shop_identifier, bank_id) ==
    IF to_object_id(bank_id) = NoneVal \/ find_bank(bs, bank_id, shop_identifier) = {} THEN {es}
    ELSE LET bank == CHOOSE b \in find_bank(bs, bank_id, shop_identifier) : TRUE
         IN {bulk_write(es, app_replay(sorted_by_get_sort_key(raw), 1, bank.opening_balance)) :
                raw \in storage_orders(app_raw_entries(es, bank_id, shop_identifier))}

\* C2: no stored entry has a negative opening or remaining balance.
NonNegativeBalances ==
    \A e \in entries : e.opening_balance >= 0 /\ e.remaining_balance >= 0

\* the call that returns repeats the call that returned just before it
repeated_call(call) == call.op = "recalculate" /\ call.ok /\ call.why = "repeated"

\* C3: a second recalculate(bank_id, from_date) right after a first one with
\* the same arguments leaves the stored entries exactly as the first call
\* left them, whatever the time strings of the entries.  Stated for the
\* calls in which the storage has no choice of order to make, so that a
\* difference is the engine's own.
RecalculateIdempotent ==
    [][(/\ repeated_call(lastOp')
        /\ Cardinality(from_date_outcomes(banks, entries, lastOp'.shop_identifier,
                                          lastOp'.bank_id, lastOp'.date)) = 1)
         => entries' = entries]_vars

in_scope(e, call) ==
    /\ e.bank_id = call.bank_id
    /\ e.shop_identifier = call.shop_identifier
    /\ e.date >= call.date

\* C8: every step of recalculate(bank_id, from_date) leaves every bank
\* record as it was, adds and removes no entry, and leaves every field of
\* every entry that is of another bank, of another shop, or dated before
\* from_date as it was.
from_date_ops ==
    {"recalculate.call", "from_date.find_bank", "from_date.find_one", "from_date.find",
     "from_date.bulk_write", "recalculate"}

RecalculateScope ==
    [][lastOp'.op \in from_date_ops =>
         /\ banks' = banks
         /\ {e.id : e \in entries'} = {e.id : e \in entries}
         /\ \A e \in entries : ~in_scope(e, lastOp') => e \in entries']_vars

is_stale(e) ==
    e.remaining_balance # max0(e.opening_balance + e.credited - e.debited)

\* a call that rewrote an entry in its range and left alone a stale entry
\* of the same bank dated before the range
RecalculateScopeWitness ==
    /\ lastOp.op = "recalculate" /\ lastOp.ok
    /\ \E e, f \in entries :
          /\ in_scope(e, lastOp) /\ ~is_stale(e)
          /\ f.bank_id = lastOp.bank_id /\ f.shop_identifier = lastOp.shop_identifier
          /\ f.date < lastOp.date /\ is_stale(f)

RECURSIVE net(_)
net(es) ==
    IF es = {} THEN 0
    ELSE LET e == CHOOSE x \in es : TRUE
         IN e.credited - e.debited + net(es \ {e})

latest_entries(es) ==
    {e \in es : \A f \in es : parse_entry_datetime(f) <= parse_entry_datetime(e)}

\* the last request was recalculate(bank, date) right after an accepted
\* add_entry on that bank and date, dated before an entry the bank had
after_backdated_insert ==
    lastOp.op = "recalculate" /\ lastOp.ok /\ lastOp.flag

latest_is_total(b) ==
    \E e \in latest_entries(entries_of(entries, b)) :
        e.remaining_balance = b.opening_balance + net(entries_of(entries, b))

never_negative(b, es) ==
    \A r \in ascending(es) : \A k \in 1..Len(r) :
        b.opening_balance + net({r[i] : i \in 1..k}) >= 0

DebitRejection ==
    \A e \in entries :
        (lastOp.op = "add_entry" /\ lastOp.ok /\ e.id = lastOp.entry_id)
            => e.debited <= lastOp.val

\* the bank of the last request has no entry dated on or before the
\* request's date, the entry the request itself inserted aside
no_entry_up_to_date ==
    \A e \in entries :
        (/\ e.bank_id = lastOp.bank_id
         /\ e.shop_identifier = lastOp.shop_identifier
         /\ e.date <= lastOp.date)
          => (lastOp.op = "add_entry" /\ e.id = lastOp.entry_id)

\* C6: when the bank has no entry dated on or before the target date, the
\* opening balance add_entry resolves and the balance bank_balance returns
\* are the bank's configured opening balance.
ResolverFallback ==
    (lastOp.op \in {"add_entry", "bank_balance"} /\ lastOp.ok /\ no_entry_up_to_date)
        => \A b \in find_bank(banks, lastOp.bank_id, lastOp.shop_identifier) :
              lastOp.val = b.opening_balance

\* a balance query for a date before the only entries of a bank whose
\* opening balance is not zero and not what its entries hold
ResolverFallbackWitness ==
    /\ lastOp.op = "bank_balance" /\ lastOp.ok /\ no_entry_up_to_date
    /\ \E b \in find_bank(banks, lastOp.bank_id, lastOp.shop_identifier) :
          /\ b.opening_balance > 0
          /\ \E e \in entries_of(entries, b) : e.remaining_balance # b.opening_balance

\* every entry dated d or later opens at its predecessor's remaining
\* balance (the first at the bank's opening balance) and closes at its
\* opening balance plus credited minus debited, as the replay writes them
recalculated_from(b, es, d) ==
    \E r \in ascending(es) :
        \A i \in 1..Len(r) :
            r[i].date >= d =>
                /\ r[i].opening_balance = chained_opening(b, r, i)
                /\ r[i].remaining_balance =
                       r[i].opening_balance + r[i].credited - r[i].debited
                /\ r[i].entry_datetime = parse_entry_datetime(r[i])

\* C9: when an add_entry, edit_entry or delete_entry request has gone
\* through, the bank of the entry has been recalculated over every entry
\* dated on or after the date of the entry.
EntryMutationRecalculates ==
    (lastOp.op \in {"add_entry", "edit_entry", "delete_entry"} /\ lastOp.ok)
        => \A b \in find_bank(banks, lastOp.bank_id, lastOp.shop_identifier) :
              recalculated_from(b, entries_of(entries, b), lastOp.date)

\* an entry was edited while a later entry of the same bank stood after it
EntryMutationRecalculatesWitness ==
    /\ lastOp.op = "edit_entry" /\ lastOp.ok
    /\ \E e, f \in entries :
          /\ e.id = lastOp.entry_id
          /\ f.bank_id = e.bank_id /\ f.shop_identifier = e.shop_identifier
          /\ parse_entry_datetime(f) > parse_entry_datetime(e)
          /\ e.remaining_balance # 0
          /\ f.opening_balance = e.remaining_balance

\* C10: when an edit of a bank has gone through, the bank's first entry
\* opens at the bank's new opening balance and every later entry opens at
\* its predecessor's remaining balance.
BankEditRecalculates ==
    (lastOp.op \in {"app.edit_bank", "banks.edit_bank"} /\ lastOp.ok)
        => \A b \in find_bank(banks, lastOp.bank_id, lastOp.shop_identifier) :
              \E r \in ascending(entries_of(entries, b)) :
                  \A i \in 1..Len(r) : r[i].opening_balance = chained_opening(b, r, i)

(***************************************************************************)
(* The worked example: a bank opened at 1000; A is entry 1 (day 2,         *)
(* credited 500), B entry 2 (day 2, later time, debited 200), C entry 3    *)
(* (day 1, credited 100).                                                  *)
(***************************************************************************)
is_entry(e, id, d, c, x) ==
    e.id = id /\ e.date = d /\ e.credited = c /\ e.debited = x

has_balances(e, o, r) ==
    e.opening_balance = o /\ e.remaining_balance = r

\* C7: with the bank opened at 1000, once A alone is inserted it holds
\* 1000 / 1500; once B is inserted after it, B holds 1500 / 1300; once C is
\* inserted and the bank recalculated from C's date, C holds 1000 / 1100,
\* A 1100 / 1600 and B 1600 / 1400.
ScenarioBalances ==
    \A a \in entries : is_entry(a, 1, 2, 500, 0) =>
        /\ entries = {a} => has_balances(a, 1000, 1500)
        /\ \A b \in entries :
              (/\ is_entry(b, 2, 2, 0, 200)
               /\ parse_entry_datetime(b) > parse_entry_datetime(a)) =>
                 /\ entries = {a, b} => has_balances(b, 1500, 1300)
                 /\ \A c \in entries :
                       (/\ is_entry(c, 3, 1, 100, 0)
                        /\ entries = {a, b, c}
                        /\ after_backdated_insert /\ lastOp.date = 1) =>
                          /\ has_balances(c, 1000, 1100)
                          /\ has_balances(a, 1100, 1600)
                          /\ has_balances(b, 1600, 1400)

\* A, B and C are stored and the bank was recalculated from C's date
ScenarioBalancesWitness ==
    /\ after_backdated_insert /\ lastOp.date = 1
    /\ \E a, b, c \in entries :
          /\ is_entry(a, 1, 2, 500, 0)
          /\ is_entry(b, 2, 2, 0, 200)
          /\ parse_entry_datetime(b) > parse_entry_datetime(a)
          /\ is_entry(c, 3, 1, 100, 0)
          /\ entries = {a, b, c}
          /\ has_balances(b, 1600, 1400)

in_period(e, call) ==
    /\ e.shop_identifier = call.shop_identifier
    /\ e.date >= call.date
    /\ e.date <= call.val

\* C11: when a request that deleted a month or a year of entries returns,
\* every bank of the shop that had an entry in the deleted range satisfies the chain
\* invariant over its surviving entries: the first opens at the bank's
\* opening balance, each later one at its predecessor's remaining balance
\* (so the entries after the range chain from the last entry before it),
\* and every remaining balance is max(0, opening + credited - debited).
PeriodDeleteRecalculates ==
    [][\A p \in Procs :
          (/\ inflight[p].response.op = "delete_report_data"
           /\ inflight'[p].pc = "idle"
           /\ lastOp'.op = "delete_report_data" /\ lastOp'.ok) =>
             \A b \in banks' :
                 (/\ b.shop_identifier = lastOp'.shop_identifier
                  /\ b.id \in inflight[p].request[3])
                     => \E r \in ascending(entries_of(entries', b)) : chain_holds(b, r)]_vars

\* C13: an edit_entry or delete_entry request passes its date check only
\* for an entry dated today; a refused request writes nothing; and the
\* write of a request that passed removes no entry of another day than the
\* one checked and changes the amounts of none.
SameDayOnly ==
    [][/\ lastOp'.op \in {"edit_entry.today", "delete_entry.today"} =>
             lastOp'.date = now.date
       /\ (lastOp'.op \in {"edit_entry", "delete_entry"} /\ ~lastOp'.ok) =>
             (entries' = entries /\ banks' = banks)
       /\ lastOp'.op \in {"edit_entry.update_one", "delete_entry.delete_one"} =>
             \A e \in entries :
                e.date # lastOp'.date =>
                    \E f \in entries' : /\ f.id = e.id
                                        /\ f.credited = e.credited
                                        /\ f.debited = e.debited]_vars

\* an edit was refused for the date while an entry of another day stands
SameDayOnlyWitness ==
    /\ lastOp.op = "edit_entry" /\ ~lastOp.ok /\ lastOp.why = "not same day"
    /\ \E e \in entries : e.date # now.date /\ e.shop_identifier = "s1"

\* C14: every stored entry has credited >= 0 and debited >= 0 and exactly
\* one of the two is not zero.
AmountsExclusive ==
    \A e \in entries :
        /\ e.credited >= 0 /\ e.debited >= 0
        /\ (e.credited > 0) # (e.debited > 0)

(***************************************************************************)
(* Bank administration by two shops: banks are added, renamed, re-opened   *)
(* and deleted through both sets of handlers while entries exist, one      *)
(* request at a time.                                                      *)
(***************************************************************************)
NextBanks ==
    \/ BankSteps(OneWorker, Shops, BankNames, {200})
    \/ BankDeletionSteps(OneWorker, Shops, {"", "pw-s1"})
    \/ AddEntrySteps(OneWorker, Shops, BankIdInputs, {1}, {100}, {0}, LedgerEntries)
    \/ RecalculateSteps(OneWorker)
    \/ FromDateSteps(OneWorker)

SpecBanks == Init /\ [][NextBanks]_vars

\* C12: the delete_many of a delete_bank request removes the entries of the
\* bank and nothing else, its delete_one the bank and nothing else, and
\* when the request returns no entry with the bank's id remains.
BankDeleteCascades ==
    [][/\ lastOp'.op \in {"app.delete_bank.delete_many", "banks.delete_bank.delete_many"} =>
            /\ banks' = banks
            /\ entries' = {e \in entries : e.bank_id # lastOp'.bank_id}
       /\ (lastOp'.op \in {"app.delete_bank", "banks.delete_bank"} /\ lastOp'.ok) =>
            /\ banks' = {b \in banks : b.id # lastOp'.bank_id}
            /\ entries' = entries
            /\ \A b \in banks' : b.id # lastOp'.bank_id
            /\ \A e \in entries' : e.bank_id # lastOp'.bank_id]_vars

(***************************************************************************)
(* One shop naming and renaming its banks from several requests at once.   *)
(***************************************************************************)
NextNames == BankSteps(Procs, {"s1"}, BankNames, {200})

SpecNames == Init /\ [][NextNames]_vars

\* C15: no two banks of the same shop have names that are equal ignoring
\* case.
BankNamesUnique ==
    \A b1, b2 \in banks :
        (b1.id # b2.id /\ b1.shop_identifier = b2.shop_identifier)
            => lower(b1.name) # lower(b2.name)

\* C20: every entry carries the current name of its bank.
BankNameCurrent ==
    \A e \in entries : \A b \in banks :
        (e.bank_id = b.id /\ e.shop_identifier = b.shop_identifier)
            => e.bank_name = b.name

(***************************************************************************)
(* Both recalculations called directly, one call at a time, with a bank id *)
(* that may be malformed, unknown, or another shop's, on a store they did  *)
(* not write.                                                              *)
(***************************************************************************)
AnyBankIds == {MalformedId} \cup BankIdInputs \cup {MaxBanks + 1}

\* a bank deleted while an entry of it was being written
DeletedBank == [id |-> MaxBanks + 1, name |-> "b", opening_balance |-> 0, shop_identifier |-> "s1"]

InitMissing ==
    /\ banks \in LegacyBanks
    /\ entries \in LegacyStores(banks \cup {DeletedBank}, 1)
    /\ nextBankId = 3
    /\ nextEntryId = 2
    /\ now = [date |-> 1, tod |-> 0]
    /\ inflight = [p \in Procs |-> Idle]
    /\ lastOp = Op("init", TRUE, "", "", 0, 0, 0, 0, FALSE)

NextMissing ==
    \/ EngineSteps(OneWorker, Shops, AnyBankIds)
    \/ \E p \in OneWorker, s \in Shops, b \in AnyBankIds : recalculate_all_call(p, s, b)
    \/ RecalculateSteps(OneWorker)

SpecMissing == InitMissing /\ [][NextMissing]_vars

is_missing(call) ==
    \A b \in banks : ~(b.id = call.bank_id /\ b.shop_identifier = call.shop_identifier)

\* C16: a recalculation called with a bank id that is malformed, unknown
\* or of another shop's bank returns at its bank lookup: it reports no
\* error and none of its steps changes an entry or a bank.
MissingBankNoOp ==
    [][(/\ lastOp'.op \in {"recalculate.call", "recalculate_all.call", "recalculate",
                            "recalculate_all"} \cup from_date_ops
        /\ is_missing(lastOp')) =>
         /\ lastOp'.why = ""
         /\ entries' = entries
         /\ banks' = banks
         /\ \A p \in Procs :
               inflight[p].pc \in {"recalculate.find_bank", "from_date.find_bank"}
                  => inflight'[p].pc \in {inflight[p].pc, "idle"}]_vars

\* the from-date recalculation was called for a bank that is gone while a
\* stale entry of it, in the range of the call, is still stored
MissingBankNoOpWitness ==
    /\ lastOp.op = "recalculate" /\ is_missing(lastOp)
    /\ \E e \in entries :
          /\ e.bank_id = lastOp.bank_id /\ e.shop_identifier = lastOp.shop_identifier
          /\ e.date >= lastOp.date /\ is_stale(e)

(***************************************************************************)
(* One shop editing its banks and deleting periods of its ledger, one      *)
(* request at a time, while the storage may fail inside the                *)
(* recalculation.  The shop starts with nothing stored, or with the ledger *)
(* that add_bank and add_entry have left it: two banks, each with a credit *)
(* on the first day and a credit on the second, so that a deleted month    *)
(* leaves both banks an entry to recalculate.                              *)
(***************************************************************************)
\* the banks of the ledger, as add_bank inserts them
TwoBanks ==
    {[id |-> 1, name |-> "a", opening_balance |-> 200, shop_identifier |-> "s1"],
     [id |-> 2, name |-> "b", opening_balance |-> 200, shop_identifier |-> "s1"]}

\* the document add_entry inserts for a credit of 100
credit_of(id, bank, date, opening_balance) ==
    LET entry_datetime == entry_datetime_of(date, 0)
    IN [id |-> id,
        date |-> date,
        time |-> strftime(entry_datetime),
        entry_datetime |-> entry_datetime,
        bank_id |-> bank.id,
        bank_name |-> bank.name,
        opening_balance |-> opening_balance,
        credited |-> 100,
        debited |-> 0,
        remaining_balance |-> opening_balance + 100,
        shop_identifier |-> bank.shop_identifier]

TwoBankLedger ==
    UNION {{credit_of(2 * bank.id - 1, bank, 1, bank.opening_balance),
            credit_of(2 * bank.id, bank, 2, bank.opening_balance + 100)} : bank \in TwoBanks}

InitFailure ==
    \/ Init
    \/ /\ banks = TwoBanks
       /\ entries = TwoBankLedger
       /\ nextBankId = 3
       /\ nextEntryId = 5
       /\ now = [date |-> 1, tod |-> 0]
       /\ inflight = [p \in Procs |-> Idle]
       /\ lastOp = Op("init", TRUE, "", "", 0, 0, 0, 0, FALSE)

NextFailure ==
    \/ AddBankSteps(OneWorker, {"s1"}, {"a", "b"}, {200})
    \/ AddEntrySteps(OneWorker, {"s1"}, BankIdInputs, Dates, {0, 100}, {0, 200}, LedgerEntries)
    \/ RecalculateSteps(OneWorker)
    \/ BanksEditBankSteps(OneWorker, {"s1"}, {"a", "b"}, {0})
    \/ ReportSteps(OneWorker, {"s1"}, {"month", "year"}, {"pw-s1"})
    \/ FromDateSteps(OneWorker)
    \/ \E p \in OneWorker : from_date_failure(p)

SpecFailure == InitFailure /\ [][NextFailure]_vars

\* a storage operation of the recalculation that worker p had called has
\* failed in this step
failure_of(p) ==
    /\ inflight[p].pc \in {"from_date.find_bank", "from_date.find_one", "from_date.find",
                            "from_date.bulk_write"}
    /\ inflight[p].response.why # "recalculation failed"
    /\ \/ lastOp'.why = "recalculation failed"
       \/ inflight'[p].response.why = "recalculation failed"

\* C17: when a storage operation fails inside the recalculation that a bank
\* edit or a period deletion calls, the call returns to the handler, which
\* goes on to its end and answers as if nothing had failed; in the step of
\* the failure no bank changes and no entry is lost, restored or changed in
\* its amounts; and when the request returns the bank update or the
\* deletion of the period is still committed: nothing is rolled back.
FailureSwallowed ==
    [][/\ \A p \in Procs :
            failure_of(p) =>
               /\ \/ inflight'[p].pc = "idle" /\ lastOp'.ok
                  \/ inflight'[p].pc = "from_date.find_bank" /\ inflight'[p].response.ok
               /\ banks' = banks
               /\ {e.id : e \in entries'} = {e.id : e \in entries}
               /\ \A e2 \in entries' : \E e \in entries :
                     /\ e.id = e2.id /\ e.bank_id = e2.bank_id /\ e.date = e2.date
                     /\ max0(e.credited) = e2.credited \/ e.credited = e2.credited
                     /\ max0(e.debited) = e2.debited \/ e.debited = e2.debited
       /\ lastOp'.why = "recalculation failed" =>
            /\ lastOp'.op = "banks.edit_bank" =>
                  \E b \in banks' : /\ b.id = lastOp'.bank_id
                                    /\ b.shop_identifier = lastOp'.shop_identifier
                                    /\ b.opening_balance = lastOp'.val
            /\ lastOp'.op = "delete_report_data" =>
                  \A e \in entries' : ~in_period(e, lastOp')]_vars

\* a period deletion that affects two banks: the recalculation of the first
\* bank has failed, leaving that bank's entry after the period with the
\* opening balance of the deleted chain, and the handler has gone on to the
\* second bank, whose entry it is about to rewrite
FailureSwallowedWitness ==
    \E p \in Procs :
        /\ inflight[p].response.op = "delete_report_data"
        /\ inflight[p].response.ok
        /\ inflight[p].response.why = "recalculation failed"
        /\ inflight[p].pc = "from_date.bulk_write"
        /\ inflight[p].updates # {}
        /\ \E b \in banks, e \in entries :
              /\ b.id # inflight[p].bank_id
              /\ b.shop_identifier = inflight[p].shop_identifier
              /\ entries_of(entries, b) = {e}
              /\ e.date >= inflight[p].date
              /\ e.opening_balance # b.opening_balance

\* C18: a request whose recalculation failed on the storage answers with
\* the try-again failure, never with success.
FailureReported ==
    lastOp.why = "recalculation failed" => ~lastOp.ok

(***************************************************************************)
(* One shop adding credits to its banks from several requests at once.     *)
(***************************************************************************)
NextRace ==
    \/ AddBankSteps(OneWorker, {"s1"}, {"a", "b"}, {200})
    \/ AddEntrySteps(Procs, {"s1"}, BankIdInputs, Dates, {100}, {0}, MaxEntries)
    \/ RecalculateSteps(Procs)

SpecRace == Init /\ [][NextRace]_vars

\* C19: whenever no request is in flight, the entries of every bank form
\* its chain, whatever the interleaving of the requests before.
SettledChain ==
    settled => \A b \in banks : \E r \in ascending(entries_of(entries, b)) : chain_holds(b, r)

\* the entries of the bank of the call that precede, in (date, time) order,
\* an entry stamped ts
preceding(es, call, ts) ==
    {e \in es : /\ e.bank_id = call.bank_id
                /\ e.shop_identifier = call.shop_identifier
                /\ parse_entry_datetime(e) <= ts}

\* C21: the opening balance of the entry that add_entry inserts is, as the
\* insert is made and before the recalculation, the remaining balance of
\* the entry just before it in (date, time) order, or the bank's opening
\* balance when no entry precedes it.
InsertionCorrect ==
    [][(lastOp'.op = "add_entry.insert_one" /\ lastOp'.ok) =>
         LET inserted == CHOOSE e \in entries' : e.id = lastOp'.entry_id
             before == preceding(entries, lastOp', parse_entry_datetime(inserted))
         IN IF before = {}
            THEN \E b \in find_bank(banks, lastOp'.bank_id, lastOp'.shop_identifier) :
                    lastOp'.val = b.opening_balance
            ELSE \E e \in before :
                    /\ \A f \in before : parse_entry_datetime(f) <= parse_entry_datetime(e)
                    /\ lastOp'.val = e.remaining_balance]_vars

(***************************************************************************)
(* The recalculation engine on a bank with two entries on the first day    *)
(* and one on the last, written by earlier versions: the stored            *)
(* entry_datetime may lag behind the date and time.  One call runs at a    *)
(* time.                                                                   *)
(***************************************************************************)
BaseStores(bs) ==
    {{d1, d2, d3} :
        d1 \in {e \in LegacyDocs(bs, 1) : e.bank_id = 1 /\ e.date = 1},
        d2 \in {e \in LegacyDocs(bs, 2) : e.bank_id = 1 /\ e.date = 1},
        d3 \in {e \in LegacyDocs(bs, 3) : e.bank_id = 1 /\ e.date = MaxDate /\ Len(e.time) = 2
                                          /\ e.remaining_balance = 0}}

InitBase ==
    /\ banks \in LegacyBanks
    /\ entries \in BaseStores(banks)
    /\ nextBankId = 3
    /\ nextEntryId = 4
    /\ now = [date |-> 1, tod |-> 0]
    /\ inflight = [p \in Procs |-> Idle]
    /\ lastOp = Op("init", TRUE, "", "", 0, 0, 0, 0, FALSE)

NextBase == EngineSteps(OneWorker, {"s1"}, BankIdInputs)

SpecBase == InitBase /\ [][NextBase]_vars

\* the balances a recalculation may start from according to the ordering
\* function: of the entries before the start date, the remaining balance of
\* a latest one by parsed date and time, floored at zero; the bank's opening
\* balance when there is none
ordered_bases(bs, es, call) ==
    LET prev == prev_entry_matches(es, call.bank_id, call.shop_identifier, call.date)
    IN IF prev = {}
       THEN {b.opening_balance : b \in find_bank(bs, call.bank_id, call.shop_identifier)}
       ELSE {max0(e.remaining_balance) :
                e \in {x \in prev : \A f \in prev :
                                       parse_entry_datetime(f) <= parse_entry_datetime(x)}}

\* C22: a recalculation starts from the remaining balance of the entry that
\* is latest by parsed date and time among those before the start date
\* (floored at zero), or from the bank's opening balance: the first entry it
\* replays opens with that balance.
BaseByOrderingFunction ==
    [][(lastOp'.op = "recalculate" /\ lastOp'.ok) =>
         LET range == from_date_raw_entries(entries, lastOp'.bank_id, lastOp'.shop_identifier,
                                             lastOp'.date)
             first == {e \in range : \A f \in range :
                                        parse_entry_datetime(e) <= parse_entry_datetime(f)}
         IN range # {} =>
               \E e \in first, e2 \in entries' :
                  /\ e2.id = e.id
                  /\ e2.opening_balance \in ordered_bases(banks, entries, lastOp')]_vars

\* the date and time of the entry parse in neither format
is_malformed(e) == Len(e.time) = 0

\* the entries r, as stored in es, carry a running balance in the order of r
replayed_in_order(es, r) ==
    \A i \in 1..Len(r) :
        \E e2 \in es :
           /\ e2.id = r[i].id
           /\ e2.remaining_balance =
                  max0(e2.opening_balance + max0(r[i].credited) - max0(r[i].debited))
           /\ i > 1 => \E e1 \in es : /\ e1.id = r[i - 1].id
                                      /\ e2.opening_balance = e1.remaining_balance

\* C23: an entry whose date and time do not parse gets the minimum
\* timestamp and is replayed before the well-formed entries of the range,
\* and every entry of the range still receives its balances: the range, as
\* written, is one running balance with the malformed entries first.
MalformedSortsFirst ==
    [][(lastOp'.op = "recalculate" /\ lastOp'.ok) =>
         LET range == from_date_raw_entries(entries, lastOp'.bank_id, lastOp'.shop_identifier,
                                             lastOp'.date)
         IN /\ \A e \in range : is_malformed(e) =>
                  \E e2 \in entries' : e2.id = e.id /\ e2.entry_datetime = DatetimeMin
            /\ \E r \in Orders(range) :
                  /\ \A i, j \in 1..Len(r) :
                        i < j => ~(is_malformed(r[j]) /\ ~is_malformed(r[i]))
                  /\ replayed_in_order(entries', r)]_vars

\* a recalculation that replayed a malformed entry and then a well-formed
\* one, which opens with what the malformed one left
MalformedSortsFirstWitness ==
    /\ lastOp.op = "recalculate" /\ lastOp.ok
    /\ \E e, f \in entries :
          /\ e.bank_id = lastOp.bank_id /\ f.bank_id = lastOp.bank_id
          /\ e.shop_identifier = lastOp.shop_identifier
          /\ f.shop_identifier = lastOp.shop_identifier
          /\ e.date >= lastOp.date /\ f.date >= lastOp.date
          /\ e.entry_datetime = DatetimeMin /\ f.entry_datetime # DatetimeMin
          /\ e.remaining_balance > 0 /\ e.remaining_balance # e.opening_balance
          /\ f.opening_balance = e.remaining_balance

balances_of(es) == {<<e.id, e.opening_balance, e.remaining_balance>> : e \in es}

\* C24: the balances a recalculation writes do not depend on the order in
\* which the storage returns the entries of the range, also when entries
\* have the same date and time.
ReplayOrderDeterministic ==
    [][(lastOp'.op = "recalculate" /\ lastOp'.ok) =>
         LET range == from_date_raw_entries(entries, lastOp'.bank_id, lastOp'.shop_identifier,
                                             lastOp'.date)
         IN \A p \in prev_entry_choices(entries, lastOp'.bank_id, lastOp'.shop_identifier,
                                        lastOp'.date) :
               \A raw1, raw2 \in Orders(range) :
                  balances_of(from_date_alone(banks, entries, lastOp'.shop_identifier,
                                              lastOp'.bank_id, lastOp'.date, p, raw1))
                    = balances_of(from_date_alone(banks, entries, lastOp'.shop_identifier,
                                                  lastOp'.bank_id, lastOp'.date, p, raw2))]_vars

\* C25: after a recalculation that went through, every entry of the bank
\* dated on or after the start date stores the timestamp that its stored
\* date and time parse to, and a time string in HH:MM:SS form.
SelfHealing ==
    (lastOp.op = "recalculate" /\ lastOp.ok) =>
        \A e \in entries :
           (/\ e.bank_id = lastOp.bank_id
            /\ e.shop_identifier = lastOp.shop_identifier
            /\ e.date >= lastOp.date) =>
               /\ e.entry_datetime = parse_entry_datetime(e)
               /\ Len(e.time) = 2

(***************************************************************************)
(* The two recalculations on stores whose amounts were written by other    *)
(* hands: negative, non-numeric or missing credited and debited values.    *)
(* One call runs at a time.                                                *)
(***************************************************************************)
StoredCredits == {NonNumeric, MissingField, -100, 100}
StoredDebits == {NonNumeric, -200, 200}

AmountDocs(bs, i) ==
    {[id |-> i,
      date |-> d,
      time |-> <<0, 0>>,
      entry_datetime |-> parse_entry_datetime([date |-> d, time |-> <<0, 0>>]),
      bank_id |-> b.id,
      bank_name |-> b.name,
      opening_balance |-> 0,
      credited |-> c,
      debited |-> x,
      remaining_balance |-> 0,
      shop_identifier |-> b.shop_identifier] :
        b \in bs, d \in Dates, c \in StoredCredits, x \in StoredDebits}

RECURSIVE AmountStores(_, _)
AmountStores(bs, n) ==
    IF n = 0 THEN {{}}
    ELSE LET smaller == AmountStores(bs, n - 1)
         IN smaller \cup {es \cup {doc} : es \in {x \in smaller : Cardinality(x) = n - 1},
                                         doc \in AmountDocs(bs, n)}

InitAmounts ==
    /\ banks \in LegacyBanks
    /\ entries \in AmountStores(banks, LegacyEntries)
    /\ nextBankId = 3
    /\ nextEntryId = LegacyEntries + 1
    /\ now = [date |-> 1, tod |-> 0]
    /\ inflight = [p \in Procs |-> Idle]
    /\ lastOp = Op("init", TRUE, "", "", 0, 0, 0, 0, FALSE)

NextAmounts ==
    \/ EngineSteps(OneWorker, Shops, BankIdInputs)
    \/ \E p \in OneWorker, s \in Shops, b \in BankIdInputs : recalculate_all_call(p, s, b)
    \/ RecalculateSteps(OneWorker)

SpecAmounts == InitAmounts /\ [][NextAmounts]_vars

\* C26: after a recalculation, every entry it replayed stores a credited
\* and a debited amount that are numbers and not negative, whatever was
\* stored before, and the recalculation went through.
AmountsCoerced ==
    (lastOp.op \in {"recalculate", "recalculate_all"} /\ lastOp.ok) =>
        /\ lastOp.why # "recalculation failed"
        /\ \A e \in entries :
              (/\ e.bank_id = lastOp.bank_id
               /\ e.shop_identifier = lastOp.shop_identifier
               /\ e.date >= lastOp.date) =>
                  e.credited >= 0 /\ e.debited >= 0

(***************************************************************************)
(* Two shops at work in the same collections, one request at a time, each  *)
(* trying every bank id and entry id, its own and the other's.             *)
(***************************************************************************)
NextTenants ==
    \/ BankSteps(OneWorker, {"s1"}, {"a"}, {200})
    \/ BankSteps(OneWorker, {"s2"}, {"a"}, {1000})
    \/ BankDeletionSteps(OneWorker, Shops, {"pw-s1"})
    \/ EntrySteps(OneWorker, Shops, {100, 500}, {0}, LedgerEntries)
    \/ EngineSteps(OneWorker, Shops, BankIdInputs)
    \/ ReportSteps(OneWorker, Shops, {"month", "year"}, {"pw-s2"})

SpecTenants == Init /\ [][NextTenants]_vars

records_of(S, shop_identifier) == {r \in S : r.shop_identifier = shop_identifier}

\* C27: every step of a request of one shop leaves the banks and entries of
\* every other shop as they were, and the balance it answers with or stores
\* is one of its own:
\* the remaining balance of one of its entries or the opening balance of
\* one of its banks.
TenantIsolation ==
    [][/\ \A s \in Shops :
            s # lastOp'.shop_identifier =>
               /\ records_of(banks', s) = records_of(banks, s)
               /\ records_of(entries', s) = records_of(entries, s)
       /\ (lastOp'.op \in {"bank_balance", "add_entry.insert_one"} /\ lastOp'.ok) =>
             lastOp'.val \in
                {e.remaining_balance : e \in records_of(entries, lastOp'.shop_identifier)}
                   \cup {b.opening_balance : b \in records_of(banks, lastOp'.shop_identifier)}]_vars

\* a shop with a bank and an entry of its own, just after a request of the
\* other shop holding records too went through
TenantIsolationWitness ==
    /\ lastOp.ok /\ lastOp.shop_identifier \in Shops
    /\ lastOp.op \in {"app.edit_bank", "banks.edit_bank", "app.delete_bank", "banks.delete_bank",
                      "edit_entry", "delete_entry", "delete_report_data", "recalculate"}
    /\ \E s \in Shops :
          /\ s # lastOp.shop_identifier
          /\ records_of(banks, s) # {}
          /\ records_of(entries, s) # {}

(***************************************************************************)
(* One shop whose deletion requests never carry its password: the field    *)
(* is empty or holds another password.  banks.py's delete_bank and the     *)
(* period deletion never get past their password check, so their later     *)
(* steps have no part here.                                                *)
(***************************************************************************)
NextPasswords ==
    \/ AddBankSteps(OneWorker, {"s1"}, {"a", "b"}, {200})
    \/ AddEntrySteps(OneWorker, {"s1"}, BankIdInputs, Dates, {100}, {0}, LedgerEntries)
    \/ RecalculateSteps(OneWorker)
    \/ DeleteBankSteps(OneWorker, {"s1"})
    \/ \E p \in OneWorker, b \in BankIdInputs, w \in {"", "pw-s2"} :
         banks_delete_bank_find_one(p, "s1", b, w)
    \/ \E p \in OneWorker, t \in {"month", "year"}, v \in PeriodInputs, w \in {"", "pw-s2"} :
         delete_report_data_distinct(p, "s1", t, v, w)

SpecPasswords == Init /\ [][NextPasswords]_vars

\* C28: no step of a delete-bank or period-delete request without the
\* account's password changes a bank or an entry.
deletion_ops ==
    {"app.delete_bank.find_one", "app.delete_bank.delete_many", "app.delete_bank",
     "banks.delete_bank.find_one", "banks.delete_bank.delete_many", "banks.delete_bank",
     "delete_report_data.distinct", "delete_report_data.delete_many", "delete_report_data"}

PasswordGuardsDeletion ==
    [][lastOp'.op \in deletion_ops => banks' = banks /\ entries' = entries]_vars

\* C29: when the entries of the bank dated before the start date form the
\* chain and the running balance over all its entries never drops below
\* zero, a recalculation from the start date leaves on every entry of the
\* bank the balances that the full replay from the bank's opening balance
\* gives.
FromDateAgreesWithFull ==
    [][(lastOp'.op = "recalculate" /\ lastOp'.ok) =>
         \A b \in find_bank(banks, lastOp'.bank_id, lastOp'.shop_identifier) :
            LET mine == entries_of(entries, b)
                before == {e \in mine : e.date < lastOp'.date}
            IN ((\E r \in ascending(before) : chain_holds(b, r)) /\ never_negative(b, mine)) =>
                  \A full \in app_outcomes(banks, entries, lastOp'.shop_identifier,
                                           lastOp'.bank_id) :
                     balances_of(entries_of(entries', b)) = balances_of(entries_of(full, b))]_vars

(***************************************************************************)
(* One shop adding entries while it deletes banks, from several requests   *)
(* at once.                                                                *)
(***************************************************************************)
NextOrphans ==
    \/ AddBankSteps(OneWorker, {"s1"}, {"a", "b"}, {200})
    \/ AddEntrySteps(Procs, {"s1"}, BankIdInputs, Dates, {100}, {0}, LedgerEntries)
    \/ RecalculateSteps(Procs)
    \/ BankDeletionSteps(Procs, {"s1"}, {"pw-s1"})

SpecOrphans == Init /\ [][NextOrphans]_vars

\* C30: every stored entry belongs to a bank that is stored for the same
\* shop.
NoOrphanEntries ==
    \A e \in entries : find_bank(banks, e.bank_id, e.shop_identifier) # {}

====
